---- MODULE Spec2Model ----
(***************************************************************************)
(* Model of examples/Getting_Started/03_Conformer_Search/sdk/run.py:       *)
(* a script that builds one conformer-search request per input SMILES      *)
(* string from a shared template, submits them, then waits for, reads and  *)
(* stores the results of every workflow.                                   *)
(*                                                                         *)
(* Python dictionaries and lists are mutable and shared by reference, so   *)
(* they live in a heap of objects; copy.deepcopy allocates fresh objects.  *)
(* The remote service and the filesystem are the environment of the script *)
(***************************************************************************)
EXTENDS Integers, Sequences, FiniteSets, TLC

VARIABLES env, base_url, gpu_type, dirState, fs,
          SMILES, SMILES_Names,
          heap, prom, workflow_ids, i, tmp_job_params, payload,
          remote, requests,
          k, workflow_id, workflow, cs_results,
          pc, err, built, reads, log

vars == <<env, base_url, gpu_type, dirState, fs, SMILES, SMILES_Names,
          heap, prom, workflow_ids, i, tmp_job_params, payload,
          remote, requests, k, workflow_id, workflow, cs_results,
          pc, err, built, reads, log>>

\* ------------------------------------------------------------------ bounds
\* largest number of input molecules of a run
MaxN == 2

\* --------------------------------------------------------------- constants
foldername == "output"

DefaultBaseUrl == "https://api.promethium.qcware.com"

DefaultGpuType == "a100"

NameSuffix == "_api_conformer-search"

ResultsSuffix == "_results.json"

\* ------------------------------------------------------------------ inputs
\* a SMILES string is a sequence of characters
DiethylEther == <<"C", "C", "O", "C", "C">>

Nirmatrelvir ==
  <<"C","C","1","(","C","2","C","1","C","(","N","(","C","2",")","C","(","=",
    "O",")","C","(","C","(","C",")","(","C",")","C",")","N","C","(","=","O",
    ")","C","(","F",")","(","F",")","F",")","C","(","=","O",")","N","C","(",
    "C","C","3","C","C","N","C","3","=","O",")","C","#","N",")","C">>

\* an additional input in "the same format" (run.py:37-38)
Methanol == <<"C", "O">>

\* the two inputs of the script, in its order, and the additional one
Molecules ==
  << [smile |-> DiethylEther, name |-> "Diethyl_Ether"],
     [smile |-> Nirmatrelvir, name |-> "Nirmatrelvir"],
     [smile |-> Methanol,     name |-> "Methanol"] >>

\* the input lists: a selection of at most MaxN of the molecules, in order,
\* one label per SMILES string
InputLists ==
  { [j \in DOMAIN pick |-> Molecules[pick[j]]] :
      pick \in { q \in UNION { [1..n -> DOMAIN Molecules] : n \in 1..MaxN } :
                   \A a, b \in DOMAIN q : a < b => q[a] < q[b] } }

NoVariables == [v \in {} |-> ""]

\* values the environment variables may carry
EnvGpuValues == {"h100"}

EnvUrlValues == {"https://staging.example.org"}

\* nothing set, the accelerator set, both variables set
Environments ==
  { NoVariables }
    \cup { [PM_GPU_TYPE |-> g] : g \in EnvGpuValues }
    \cup { [PM_GPU_TYPE |-> g, PM_API_BASE_URL |-> u] :
             g \in EnvGpuValues, u \in EnvUrlValues }

\* identifiers the remote service may assign
IdPool == { "wf-7", "wf-3", "wf-5" }

\* -------------------------------------------------------------- os.getenv
getenv(e, key, default) == IF key \in DOMAIN e THEN e[key] ELSE default

\* ------------------------------------------------------------ base64encode
Ord(ch) ==
  CASE ch = "C" -> 67 [] ch = "O" -> 79 [] ch = "N" -> 78 [] ch = "F" -> 70
    [] ch = "1" -> 49 [] ch = "2" -> 50 [] ch = "3" -> 51
    [] ch = "(" -> 40 [] ch = ")" -> 41 [] ch = "=" -> 61 [] ch = "#" -> 35

utf8(s) == [j \in 1..Len(s) |-> Ord(s[j])]

Base64Alphabet ==
  <<"A","B","C","D","E","F","G","H","I","J","K","L","M","N","O","P","Q","R",
    "S","T","U","V","W","X","Y","Z","a","b","c","d","e","f","g","h","i","j",
    "k","l","m","n","o","p","q","r","s","t","u","v","w","x","y","z","0","1",
    "2","3","4","5","6","7","8","9","+","/">>

Digit64(v) == Base64Alphabet[v + 1]

RECURSIVE b64bytes(_)
b64bytes(b) ==
  IF Len(b) = 0 THEN ""
  ELSE IF Len(b) = 1 THEN
    Digit64(b[1] \div 4) \o Digit64((b[1] % 4) * 16) \o "=="
  ELSE IF Len(b) = 2 THEN
    Digit64(b[1] \div 4) \o Digit64((b[1] % 4) * 16 + (b[2] \div 16))
      \o Digit64((b[2] % 16) * 4) \o "="
  ELSE
    Digit64(b[1] \div 4) \o Digit64((b[1] % 4) * 16 + (b[2] \div 16))
      \o Digit64((b[2] % 16) * 4 + (b[3] \div 64)) \o Digit64(b[3] % 64)
      \o b64bytes(SubSeq(b, 4, Len(b)))

base64encode(s) == b64bytes(utf8(s))

\* -------------------------------------------------------------------- heap
\* an object is a dict or a list: its plain values and its references to
\* other objects, both keyed by strings (list positions are "0", "1", ...)
NoEntries == [key \in {} |-> ""]

Dict(atoms, refs) == [type |-> "dict", atoms |-> atoms, refs |-> refs]

List(refs) == [type |-> "list", atoms |-> NoEntries, refs |-> refs]

\* address of the template dictionary
job_params == 1

\* the heap after line 119: the literal of job_params
TemplateHeap ==
  << Dict([name |-> "name_placeholder", version |-> "v1",
           kind |-> "ConformerSearch"],
          [parameters |-> 2, resources |-> 18]),
     Dict(NoEntries, [molecule |-> 3, params |-> 4, filters |-> 5]),
     Dict(NoEntries, NoEntries),
     Dict([confgen_max_n_conformers |-> "50", confgen_rmsd_threshold |-> "0.3",
           charge |-> "0", multiplicity |-> "1"], NoEntries),
     List([p \in {"0", "1", "2"} |->
             IF p = "0" THEN 6 ELSE IF p = "1" THEN 8 ELSE 10]),
     Dict([filtertype |-> "ForceField", key |-> "FF"], [params |-> 7]),
     Dict([do_geometry_optimization |-> "True", forcefield_type |-> "MMFF",
           max_n_conformers |-> "50", energy_threshold |-> "15",
           rmsd_threshold |-> "0.3", coulomb_distance_threshold |-> "0.005"],
          NoEntries),
     Dict([filtertype |-> "ANI", key |-> "ANI"], [params |-> 9]),
     Dict([max_n_conformers |-> "10", energy_threshold |-> "10",
           distance_threshold |-> "0.005", do_geometry_optimization |-> "True"],
          NoEntries),
     Dict([filtertype |-> "DFT", key |-> "DFT Stage 1 (Coarse Filtering)"],
          [params |-> 11, system |-> 12, hf |-> 14, jk_builder |-> 16]),
     Dict([maxiter |-> "15", energy_threshold |-> "5",
           do_geometry_optimization |-> "True", distance_threshold |-> "0.005",
           g_thresh |-> "1e-4"], NoEntries),
     Dict(NoEntries, [params |-> 13]),
     Dict([basisname |-> "def2-svp", jkfit_basisname |-> "def2-universal-jkfit",
           methodname |-> "b3lyp-d3", xc_grid_scheme |-> "SG1",
           pcm_epsilon |-> "80.4", pcm_spherical_npoint |-> "110"], NoEntries),
     Dict(NoEntries, [params |-> 15]),
     Dict([g_convergence |-> "0.000001"], NoEntries),
     Dict([type |-> "core_dfjk"], [params |-> 17]),
     Dict(NoEntries, NoEntries),
     Dict([gpu_type |-> "a100"], NoEntries) >>

\* a function value, computed once when it is built (f @@ <<>> is f itself)
Evaluated(f) == f @@ <<>>

\* the objects reachable from a set of addresses
RECURSIVE ReachFrom(_, _)
ReachFrom(h, S) ==
  LET T == S \cup UNION { { h[a].refs[key] : key \in DOMAIN h[a].refs } :
                             a \in S } IN
  IF T = S THEN S ELSE ReachFrom(h, T)

\* the value of an object with everything below it, as a reader who follows
\* the references (a serialiser, a model constructor) sees it: one
\* <<path, value>> entry per item, "$" for the object itself,
\* "$.parameters.molecule.filetype" for a nested one
RECURSIVE Pairs(_, _, _)
Pairs(h, a, prefix) ==
  { <<prefix, "<" \o h[a].type \o ">">> }
    \cup { <<prefix \o "." \o key, h[a].atoms[key]>> :
             key \in DOMAIN h[a].atoms }
    \cup UNION { Pairs(h, h[a].refs[key], prefix \o "." \o key) :
                   key \in DOMAIN h[a].refs }

Value(h, a) == Pairs(h, a, "$")

\* the item of a value at a path
Field(v, path) == (CHOOSE x \in v : x[1] = path)[2]

Paths(v) == { x[1] : x \in v }

\* a new object is allocated at the next free address
Alloc(h, obj) ==
  Evaluated([a \in 1..(Len(h) + 1) |-> IF a <= Len(h) THEN h[a] ELSE obj])

\* copy.copy: a new top-level object that shares everything below it
shallowcopy(h, root) ==
  [heap |-> Alloc(h, h[root]), addr |-> Len(h) + 1]

\* copy.deepcopy: every reachable object is copied to a fresh address
deepcopy(h, root) ==
  LET R == ReachFrom(h, {root})
      base == Len(h)
      new == Evaluated([a \in R |-> base + Cardinality({ b \in R : b <= a })])
      old == Evaluated([n \in (base + 1)..(base + Cardinality(R)) |->
                          CHOOSE b \in R : new[b] = n])
  IN [heap |-> Evaluated(
                 [a \in 1..(base + Cardinality(R)) |->
                    IF a <= base THEN h[a]
                    ELSE [h[old[a]] EXCEPT
                            !.refs = [key \in DOMAIN h[old[a]].refs |->
                                        new[h[old[a]].refs[key]]]]]),
      addr |-> new[root]]

\* d[key] = value for a plain value
SetAtom(h, d, key, value) ==
  Evaluated(
    [a \in DOMAIN h |->
       IF a # d THEN h[a]
       ELSE [h[a] EXCEPT !.atoms =
               [q \in DOMAIN h[d].atoms \cup {key} |->
                  IF q = key THEN value ELSE h[d].atoms[q]]]])

\* d[key] = {...}: a new dict literal is allocated and d[key] refers to it
SetNewDict(h, d, key, atoms) ==
  Evaluated(
    [a \in 1..(Len(h) + 1) |->
       IF a = Len(h) + 1 THEN Dict(atoms, NoEntries)
       ELSE IF a # d THEN h[a]
       ELSE [h[a] EXCEPT !.refs =
               [q \in DOMAIN h[d].refs \cup {key} |->
                  IF q = key THEN Len(h) + 1 ELSE h[d].refs[q]]]])

\* zip(a, b): pairs up to the shorter of the two lists
zip(a, b) ==
  [j \in 1..(IF Len(a) <= Len(b) THEN Len(a) ELSE Len(b)) |-> <<a[j], b[j]>>]

\* ------------------------------------------------------- the script's names
\* the name is left as it is in the template
JobNameUnset(smile_name) == "name_placeholder" \o NameSuffix

\* line 128: the name of the workflow of an input label
JobName(smile_name) == smile_name \o NameSuffix

\* one file name for every workflow
ResultsPathShared(name) == foldername \o "/" \o "results" \o ".json"

\* line 159: the file the results of a workflow are written to
ResultsPath(name) == foldername \o "/" \o name \o ResultsSuffix

\* workflow_ids.insert(0, workflow.id)
StoreIdFront(ids, id) == <<id>> \o ids

\* line 135: workflow_ids.append(workflow.id)
StoreId(ids, id) == Append(ids, id)

\* for workflow_id in reversed(workflow_ids)
NextIdReversed(ids, n) == ids[Len(ids) + 1 - n]

\* line 148: the identifier the n-th iteration of the second loop works on
NextId(ids, n) == ids[n]

\* ------------------------------------------------------ the remote service
TerminalStatus == {"completed", "failed"}

Statuses == {"pending", "running"} \cup TerminalStatus

\* a wait that returns whatever the status
WaitReturnsAtOnce(status) == status \in Statuses

\* line 150: wait(id) returns once the workflow has finished
WaitReturns(status) == status \in TerminalStatus

\* the results object of a workflow
ResultsOf(id, status) ==
  [workflow_id |-> id,
   artifacts |-> IF status = "completed" THEN "conformers" ELSE ""]

\* line 160: cs_results.model_dump_json(indent=2)
model_dump_json(r) ==
  "{\n  \"workflow_id\": \"" \o r.workflow_id \o "\",\n  \"artifacts\": {"
    \o (IF r.artifacts = "" THEN "" ELSE "\"" \o r.artifacts \o "\": []")
    \o "}\n}"

Event(op, idx, id, ok) == [op |-> op, idx |-> idx, id |-> id, ok |-> ok]

NoError == [kind |-> "none", idx |-> 0]

\* an output directory that is already there may hold the file of an
\* earlier run
LeftOverFiles ==
  Evaluated([q \in {ResultsPath(JobName("Diethyl_Ether"))} |-> "{}"])

\* -------------------------------------------------------------------- Init
\* the state after lines 29-31 and the literals of lines 39-119
Init ==
  /\ env \in Environments
  /\ base_url = getenv(env, "PM_API_BASE_URL", DefaultBaseUrl)
  /\ gpu_type = getenv(env, "PM_GPU_TYPE", DefaultGpuType)
  /\ dirState \in {"absent", "dir"}
  /\ fs \in (IF dirState = "dir" THEN {NoEntries, LeftOverFiles}
             ELSE {NoEntries})
  /\ \E inp \in InputLists :
       /\ SMILES = [j \in DOMAIN inp |-> inp[j].smile]
       /\ SMILES_Names = [j \in DOMAIN inp |-> inp[j].name]
  /\ heap = TemplateHeap
  /\ prom = [args |-> NoEntries, ready |-> FALSE]
  /\ workflow_ids = <<>>
  /\ i = 1
  /\ tmp_job_params = 0
  /\ payload = Value(TemplateHeap, job_params)
  /\ remote = NoEntries
  /\ requests = <<>>
  /\ k = 1
  /\ workflow_id = ""
  /\ workflow = [name |-> "", status |-> ""]
  /\ cs_results = ResultsOf("", "")
  /\ pc = "makedirs"
  /\ err = NoError
  /\ built = <<>>
  /\ reads = <<>>
  /\ log = <<>>

\* ----------------------------------------------------------- lines 33-34
\* the directory is there: os.makedirs is skipped
DirExists ==
  /\ pc = "makedirs"
  /\ dirState = "dir"
  /\ pc' = "client"
  /\ UNCHANGED <<env, base_url, gpu_type, dirState, fs, SMILES, SMILES_Names,
                 heap, prom, workflow_ids, i, tmp_job_params, payload,
                 remote, requests, k, workflow_id, workflow, cs_results,
                 err, built, reads, log>>

MakeDirs ==
  /\ pc = "makedirs"
  /\ dirState = "absent"
  /\ dirState' = "dir"
  /\ pc' = "client"
  /\ UNCHANGED <<env, base_url, gpu_type, fs, SMILES, SMILES_Names,
                 heap, prom, workflow_ids, i, tmp_job_params, payload,
                 remote, requests, k, workflow_id, workflow, cs_results,
                 err, built, reads, log>>

\* os.makedirs raises: the script ends with the exception
MakeDirsFail ==
  /\ pc = "makedirs"
  /\ dirState = "absent"
  /\ pc' = "error"
  /\ err' = [kind |-> "makedirs", idx |-> 0]
  /\ UNCHANGED <<env, base_url, gpu_type, dirState, fs, SMILES, SMILES_Names,
                 heap, prom, workflow_ids, i, tmp_job_params, payload,
                 remote, requests, k, workflow_id, workflow, cs_results,
                 built, reads, log>>

\* ------------------------------------------------------------- line 123
\* PromethiumClient() is given no argument: base_url is not handed over
NewClient ==
  /\ pc = "client"
  /\ prom' = [args |-> NoEntries, ready |-> TRUE]
  /\ pc' = "build"
  /\ UNCHANGED <<env, base_url, gpu_type, dirState, fs, SMILES, SMILES_Names,
                 heap, workflow_ids, i, tmp_job_params, payload,
                 remote, requests, k, workflow_id, workflow, cs_results,
                 err, built, reads, log>>

\* ----------------------------------------------------------- lines 126-133
BuildPayload ==
  /\ pc = "build"
  /\ i <= Len(zip(SMILES, SMILES_Names))
  /\ LET smile == zip(SMILES, SMILES_Names)[i][1]
         smile_name == zip(SMILES, SMILES_Names)[i][2]
         c == deepcopy(heap, job_params)
         h1 == SetAtom(c.heap, c.addr, "name", JobName(smile_name))
         h2 == SetNewDict(h1, h1[c.addr].refs["parameters"], "molecule",
                          [base64data |-> base64encode(smile),
                           filetype |-> "smi"])
     IN /\ heap' = h2
        /\ tmp_job_params' = c.addr
        /\ payload' = Value(h2, c.addr)
        /\ built' = Append(built, c.addr)
  /\ pc' = "submit"
  /\ UNCHANGED <<env, base_url, gpu_type, dirState, fs, SMILES, SMILES_Names,
                 prom, workflow_ids, i, remote, requests, k, workflow_id,
                 workflow, cs_results, err, reads, log>>

\* ----------------------------------------------------------- lines 134-136
\* the service accepts the request and assigns an identifier
Submit ==
  /\ pc = "submit"
  /\ \E id \in IdPool \ DOMAIN remote :
       /\ remote' = [w \in DOMAIN remote \cup {id} |->
                       IF w = id
                       THEN [name |-> Field(payload, "$.name"), status |-> "pending"]
                       ELSE remote[w]]
       /\ requests' = Append(requests, [id |-> id, payload |-> payload])
       /\ workflow_ids' = StoreId(workflow_ids, id)
       /\ log' = Append(log, Event("submit", i, id, TRUE))
  /\ i' = i + 1
  /\ pc' = IF i < Len(zip(SMILES, SMILES_Names)) THEN "build" ELSE "wait"
  /\ UNCHANGED <<env, base_url, gpu_type, dirState, fs, SMILES, SMILES_Names,
                 heap, prom, tmp_job_params, payload, k, workflow_id,
                 workflow, cs_results, err, built, reads>>

\* a submission loop that catches the exception and goes on with the next
\* input
SubmitFailSkipped ==
  /\ pc = "submit"
  /\ log' = Append(log, Event("submit", i, "", FALSE))
  /\ i' = i + 1
  /\ pc' = IF i < Len(zip(SMILES, SMILES_Names)) THEN "build" ELSE "wait"
  /\ UNCHANGED <<env, base_url, gpu_type, dirState, fs, SMILES, SMILES_Names,
                 heap, prom, workflow_ids, tmp_job_params, payload,
                 remote, requests, k, workflow_id, workflow, cs_results,
                 err, built, reads>>

\* submit raises (network, credentials, rejected request): nothing catches
\* the exception and the script ends
SubmitFail ==
  /\ pc = "submit"
  /\ log' = Append(log, Event("submit", i, "", FALSE))
  /\ pc' = "error"
  /\ err' = [kind |-> "submit", idx |-> i]
  /\ UNCHANGED <<env, base_url, gpu_type, dirState, fs, SMILES, SMILES_Names,
                 heap, prom, workflow_ids, i, tmp_job_params, payload,
                 remote, requests, k, workflow_id, workflow, cs_results,
                 built, reads>>

\* ------------------------------------------------------ the remote service
\* a workflow makes progress on the server, independently of the script;
\* a finished workflow stays as it is
RemoteStep ==
  /\ \E id \in DOMAIN remote :
       \/ /\ remote[id].status = "pending"
          /\ remote' = [remote EXCEPT ![id].status = "running"]
       \/ /\ remote[id].status = "running"
          /\ \E st \in TerminalStatus :
               remote' = [remote EXCEPT ![id].status = st]
  /\ UNCHANGED <<env, base_url, gpu_type, dirState, fs, SMILES, SMILES_Names,
                 heap, prom, workflow_ids, i, tmp_job_params, payload,
                 requests, k, workflow_id, workflow, cs_results,
                 pc, err, built, reads, log>>

\* ----------------------------------------------------------- lines 148-150
\* the next identifier is taken and wait is called
WaitCall ==
  /\ pc = "wait"
  /\ k <= Len(workflow_ids)
  /\ workflow_id' = NextId(workflow_ids, k)
  /\ log' = Append(log, Event("wait_call", k, NextId(workflow_ids, k), TRUE))
  /\ pc' = "waiting"
  /\ UNCHANGED <<env, base_url, gpu_type, dirState, fs, SMILES, SMILES_Names,
                 heap, prom, workflow_ids, i, tmp_job_params, payload,
                 remote, requests, k, workflow, cs_results, err, built, reads>>

WaitReturn ==
  /\ pc = "waiting"
  /\ WaitReturns(remote[workflow_id].status)
  /\ log' = Append(log, Event("wait_return", k, workflow_id, TRUE))
  /\ pc' = "get"
  /\ UNCHANGED <<env, base_url, gpu_type, dirState, fs, SMILES, SMILES_Names,
                 heap, prom, workflow_ids, i, tmp_job_params, payload,
                 remote, requests, k, workflow_id, workflow, cs_results,
                 err, built, reads>>

\* wait raises (timeout, network)
WaitFail ==
  /\ pc = "waiting"
  /\ log' = Append(log, Event("wait_return", k, workflow_id, FALSE))
  /\ pc' = "error"
  /\ err' = [kind |-> "wait", idx |-> k]
  /\ UNCHANGED <<env, base_url, gpu_type, dirState, fs, SMILES, SMILES_Names,
                 heap, prom, workflow_ids, i, tmp_job_params, payload,
                 remote, requests, k, workflow_id, workflow, cs_results,
                 built, reads>>

\* ----------------------------------------------------------- lines 153-155
Get ==
  /\ pc = "get"
  /\ workflow' = [name |-> remote[workflow_id].name,
                  status |-> remote[workflow_id].status]
  /\ reads' = Append(reads, remote[workflow_id].status)
  /\ log' = Append(log, Event("get", k, workflow_id, TRUE))
  /\ pc' = "results"
  /\ UNCHANGED <<env, base_url, gpu_type, dirState, fs, SMILES, SMILES_Names,
                 heap, prom, workflow_ids, i, tmp_job_params, payload,
                 remote, requests, k, workflow_id, cs_results, err, built>>

GetFail ==
  /\ pc = "get"
  /\ log' = Append(log, Event("get", k, workflow_id, FALSE))
  /\ pc' = "error"
  /\ err' = [kind |-> "get", idx |-> k]
  /\ UNCHANGED <<env, base_url, gpu_type, dirState, fs, SMILES, SMILES_Names,
                 heap, prom, workflow_ids, i, tmp_job_params, payload,
                 remote, requests, k, workflow_id, workflow, cs_results,
                 built, reads>>

\* results fetched at the top of the iteration, without wait and get
ResultsWithoutWaiting ==
  /\ pc = "wait"
  /\ k <= Len(workflow_ids)
  /\ workflow_id' = NextId(workflow_ids, k)
  /\ cs_results' = ResultsOf(NextId(workflow_ids, k),
                             remote[NextId(workflow_ids, k)].status)
  /\ log' = Append(log, Event("results", k, NextId(workflow_ids, k), TRUE))
  /\ pc' = "write"
  /\ UNCHANGED <<env, base_url, gpu_type, dirState, fs, SMILES, SMILES_Names,
                 heap, prom, workflow_ids, i, tmp_job_params, payload,
                 remote, requests, k, workflow, err, built, reads>>

\* ---------------------------------------------------------------- line 158
Results ==
  /\ pc = "results"
  /\ cs_results' = ResultsOf(workflow_id, remote[workflow_id].status)
  /\ log' = Append(log, Event("results", k, workflow_id, TRUE))
  /\ pc' = "write"
  /\ UNCHANGED <<env, base_url, gpu_type, dirState, fs, SMILES, SMILES_Names,
                 heap, prom, workflow_ids, i, tmp_job_params, payload,
                 remote, requests, k, workflow_id, workflow, err, built, reads>>

ResultsFail ==
  /\ pc = "results"
  /\ log' = Append(log, Event("results", k, workflow_id, FALSE))
  /\ pc' = "error"
  /\ err' = [kind |-> "results", idx |-> k]
  /\ UNCHANGED <<env, base_url, gpu_type, dirState, fs, SMILES, SMILES_Names,
                 heap, prom, workflow_ids, i, tmp_job_params, payload,
                 remote, requests, k, workflow_id, workflow, cs_results,
                 built, reads>>

\* ----------------------------------------------------------- lines 159-160
\* open(path, "w") creates or truncates the file, write fills it
WriteFile(files, path, content) ==
  [q \in DOMAIN files \cup {path} |-> IF q = path THEN content ELSE files[q]]

Write ==
  /\ pc = "write"
  /\ fs' = WriteFile(fs, ResultsPath(workflow.name),
                     model_dump_json(cs_results))
  /\ log' = Append(log, Event("write", k, workflow_id, TRUE))
  /\ pc' = "print"
  /\ UNCHANGED <<env, base_url, gpu_type, dirState, SMILES, SMILES_Names,
                 heap, prom, workflow_ids, i, tmp_job_params, payload,
                 remote, requests, k, workflow_id, workflow, cs_results,
                 err, built, reads>>

\* a write whose exception is caught and dropped
WriteFailSwallowed ==
  /\ pc = "write"
  /\ \/ fs' = fs
     \/ fs' = WriteFile(fs, ResultsPath(workflow.name), "")
  /\ log' = Append(log, Event("write", k, workflow_id, FALSE))
  /\ pc' = "print"
  /\ UNCHANGED <<env, base_url, gpu_type, dirState, SMILES, SMILES_Names,
                 heap, prom, workflow_ids, i, tmp_job_params, payload,
                 remote, requests, k, workflow_id, workflow, cs_results,
                 err, built, reads>>

\* open raises (the file is untouched), or the file is opened and truncated
\* and serialising or writing raises; the exception ends the script
WriteFail ==
  /\ pc = "write"
  /\ \/ fs' = fs
     \/ fs' = WriteFile(fs, ResultsPath(workflow.name), "")
  /\ log' = Append(log, Event("write", k, workflow_id, FALSE))
  /\ pc' = "error"
  /\ err' = [kind |-> "write", idx |-> k]
  /\ UNCHANGED <<env, base_url, gpu_type, dirState, SMILES, SMILES_Names,
                 heap, prom, workflow_ids, i, tmp_job_params, payload,
                 remote, requests, k, workflow_id, workflow, cs_results,
                 built, reads>>

\* ----------------------------------------------------------- lines 164-166
\* the conformers are printed and the loop goes to the next identifier
PrintConformers ==
  /\ pc = "print"
  /\ k' = k + 1
  /\ pc' = IF k < Len(workflow_ids) THEN "wait" ELSE "done"
  /\ UNCHANGED <<env, base_url, gpu_type, dirState, fs, SMILES, SMILES_Names,
                 heap, prom, workflow_ids, i, tmp_job_params, payload,
                 remote, requests, workflow_id, workflow, cs_results,
                 err, built, reads, log>>

\* get_artifact raises
PrintFail ==
  /\ pc = "print"
  /\ pc' = "error"
  /\ err' = [kind |-> "artifact", idx |-> k]
  /\ UNCHANGED <<env, base_url, gpu_type, dirState, fs, SMILES, SMILES_Names,
                 heap, prom, workflow_ids, i, tmp_job_params, payload,
                 remote, requests, k, workflow_id, workflow, cs_results,
                 built, reads, log>>

Next ==
  \/ DirExists \/ MakeDirs \/ MakeDirsFail \/ NewClient
  \/ BuildPayload \/ Submit \/ SubmitFail
  \/ RemoteStep
  \/ WaitCall \/ WaitReturn \/ WaitFail
  \/ Get \/ GetFail \/ Results \/ ResultsFail
  \/ Write \/ WriteFail \/ PrintConformers \/ PrintFail

Spec == Init /\ [][Next]_vars

TypeOK ==
  /\ pc \in {"makedirs", "client", "build", "submit", "wait", "waiting",
             "get", "results", "write", "print", "done", "error"}
  /\ Len(workflow_ids) <= MaxN
  /\ \A id \in DOMAIN remote : remote[id].status \in Statuses

\* ================================================================== claims
\* positions of the log holding an event of the given kind
EventsOf(op) == { p \in DOMAIN log : log[p].op = op }

\* the first loop has ended without an exception
SubmissionOver ==
  \/ pc \in {"wait", "waiting", "get", "results", "write", "print", "done"}
  \/ pc = "error" /\ err.kind \notin {"makedirs", "submit"}

\* C1: building the payloads never changes the template job_params (name
\* "name_placeholder", empty molecule, filters ForceField, ANI, DFT in that
\* order, same resources, equal to the literal as a whole), and the payloads
\* are independent: no payload shares an object with the template or with
\* another payload, and a payload built earlier still has the value it was
\* submitted with after later payloads were built.
TemplateValue == Value(TemplateHeap, job_params)

C1_TemplateUnmutatedPayloadsIndependent ==
  LET t == Value(heap, job_params)
      objects == Evaluated([a \in DOMAIN built |-> ReachFrom(heap, {built[a]})])
  IN
  /\ t = TemplateValue
  /\ Field(t, "$.name") = "name_placeholder"
  /\ Field(t, "$.parameters.molecule") = "<dict>"
  /\ \A path \in Paths(t) :
       path \notin {"$.parameters.molecule.base64data",
                    "$.parameters.molecule.filetype"}
  /\ Field(t, "$.parameters.filters.0.filtertype") = "ForceField"
  /\ Field(t, "$.parameters.filters.1.filtertype") = "ANI"
  /\ Field(t, "$.parameters.filters.2.filtertype") = "DFT"
  /\ Field(t, "$.resources.gpu_type") = "a100"
  /\ \A a \in DOMAIN built :
       /\ objects[a] \cap ReachFrom(heap, {job_params}) = {}
       /\ \A b \in DOMAIN built : a # b => objects[a] \cap objects[b] = {}
       /\ a \in DOMAIN requests =>
            Value(heap, built[a]) = requests[a].payload

\* two payloads have been built and submitted
C1_Witness ==
  /\ Len(built) = 2
  /\ Len(requests) = 2
  /\ Field(Value(heap, built[1]), "$.name")
       # Field(Value(heap, built[2]), "$.name")

\* C2: when every submit call succeeds, after the first loop workflow_ids
\* has exactly one entry per input SMILES string, and its j-th entry is the
\* identifier the service returned for the request of the j-th input.
C2_IdsStoredInInputOrder ==
  SubmissionOver =>
    /\ Len(workflow_ids) = Len(SMILES)
    /\ Len(requests) = Len(SMILES)
    /\ \A j \in DOMAIN workflow_ids :
         /\ requests[j].id = workflow_ids[j]
         /\ Field(requests[j].payload, "$.parameters.molecule.base64data")
              = base64encode(SMILES[j])
         /\ \E p \in EventsOf("submit") :
              log[p] = Event("submit", j, workflow_ids[j], TRUE)

\* two inputs have been submitted and the first loop is over
C2_Witness ==
  /\ SubmissionOver
  /\ Len(SMILES) = 2
  /\ workflow_ids = <<"wf-5", "wf-3">>

\* C3: every status that get(id) reads is terminal (completed or failed):
\* wait(id) has returned for that identifier before, and from get on the
\* workflow of the current identifier is in a terminal state.
C3_StatusReadIsTerminal ==
  /\ \A r \in DOMAIN reads : reads[r] \in {"completed", "failed"}
  /\ \A p \in EventsOf("get") :
       \E q \in EventsOf("wait_return") :
         q < p /\ log[q].id = log[p].id /\ log[q].ok
  /\ pc \in {"get", "results", "write", "print"} =>
       remote[workflow_id].status \in {"completed", "failed"}

\* a failed and a completed workflow have both been read
C3_Witness ==
  /\ Len(reads) = 2
  /\ reads[1] = "failed"
  /\ reads[2] = "completed"

\* the file of the j-th workflow, named after the workflow
FileOf(j) ==
  "output/" \o remote[workflow_ids[j]].name \o "_results.json"

\* C4: after a run in which every call and every write succeeded, the output
\* directory holds exactly one results file per submitted workflow, the file
\* of the j-th workflow is output/<its name>_results.json, it was written
\* once and it holds the results of that workflow (no other write replaced
\* it); the run created no other file.
C4_OneFilePerWorkflow ==
  pc = "done" =>
    /\ Cardinality({ FileOf(j) : j \in DOMAIN workflow_ids })
         = Len(workflow_ids)
    /\ DOMAIN fs \subseteq
         { FileOf(j) : j \in DOMAIN workflow_ids }
           \cup {"output/Diethyl_Ether_api_conformer-search_results.json"}
    /\ \A j \in DOMAIN workflow_ids :
         /\ remote[workflow_ids[j]].name
              = SMILES_Names[j] \o "_api_conformer-search"
         /\ FileOf(j) \in DOMAIN fs
         /\ fs[FileOf(j)] = model_dump_json(
              ResultsOf(workflow_ids[j], remote[workflow_ids[j]].status))
         /\ Cardinality({ p \in EventsOf("write") : log[p].idx = j }) = 1

\* a run with two workflows has ended and both files are there
C4_Witness ==
  /\ pc = "done"
  /\ Len(workflow_ids) = 2
  /\ DOMAIN fs =
       {"output/Diethyl_Ether_api_conformer-search_results.json",
        "output/Nirmatrelvir_api_conformer-search_results.json"}

\* C5 (as stated): a failed submit call does not abort the remaining
\* submissions: once the run has ended, a submit call has been made for
\* every input after an input whose submit call failed.
C5_FailedSubmitDoesNotAbort ==
  pc \in {"done", "error"} =>
    \A p \in EventsOf("submit") :
      ~log[p].ok =>
        \A j \in (log[p].idx + 1)..Len(SMILES) :
          \E q \in EventsOf("submit") : log[q].idx = j

\* C5 (amended): a failed submit call ends the run: it is the last call the
\* script makes (no submit for a later input, no wait, get or results), the
\* run is in the error state, and workflow_ids holds exactly the identifiers
\* of the submissions made before it, in input order.
C5_FailedSubmitEndsRun ==
  \A p \in EventsOf("submit") :
    ~log[p].ok =>
      /\ p = Len(log)
      /\ pc = "error"
      /\ Len(workflow_ids) = log[p].idx - 1
      /\ \A j \in DOMAIN workflow_ids :
           log[j] = Event("submit", j, workflow_ids[j], TRUE)

\* the submit call of the second input failed after the first succeeded
C5_Witness ==
  /\ pc = "error"
  /\ Len(log) = 2
  /\ log[1].ok
  /\ log[2] = Event("submit", 2, "", FALSE)
  /\ Len(workflow_ids) = 1

\* C6: the gpu_type of every submitted request is the value of PM_GPU_TYPE
\* when it is set and "a100" otherwise, and the base address is the value of
\* PM_API_BASE_URL when it is set and the default address otherwise.
C6_GpuTypeAndUrlFromEnvironment ==
  /\ \A j \in DOMAIN requests :
       Field(requests[j].payload, "$.resources.gpu_type") =
         (IF "PM_GPU_TYPE" \in DOMAIN env THEN env["PM_GPU_TYPE"] ELSE "a100")
  /\ base_url = (IF "PM_API_BASE_URL" \in DOMAIN env
                 THEN env["PM_API_BASE_URL"]
                 ELSE "https://api.promethium.qcware.com")

\* C7: the request submitted for the j-th input is named
\* "<label_j>_api_conformer-search", its molecule is the base64 encoding of
\* the j-th SMILES string with filetype "smi", and requests of different
\* inputs have different names (CCOCC labelled Diethyl_Ether gives
\* Diethyl_Ether_api_conformer-search with the data Q0NPQ0M=).
C7_PayloadNameAndMolecule ==
  /\ \A j \in DOMAIN requests :
       LET r == requests[j].payload IN
       /\ Field(r, "$.name") = SMILES_Names[j] \o "_api_conformer-search"
       /\ Field(r, "$.parameters.molecule.base64data") = base64encode(SMILES[j])
       /\ Field(r, "$.parameters.molecule.filetype") = "smi"
       /\ SMILES_Names[j] = "Diethyl_Ether" =>
            /\ Field(r, "$.name") = "Diethyl_Ether_api_conformer-search"
            /\ Field(r, "$.parameters.molecule.base64data") = "Q0NPQ0M="
       /\ SMILES_Names[j] = "Methanol" =>
            Field(r, "$.parameters.molecule.base64data") = "Q08="
       /\ SMILES_Names[j] = "Nirmatrelvir" =>
            Field(r, "$.parameters.molecule.base64data") =
              "Q0MxKEMyQzFDKE4oQzIpQyg9TylDKEMoQykoQylDKU5DKD1PKUMoRikoRilGKUMoPU8pTkMoQ0MzQ0NOQzM9TylDI04pQw=="
  /\ \A a, b \in DOMAIN requests :
       a # b => Field(requests[a].payload, "$.name")
                  # Field(requests[b].payload, "$.name")

\* the two inputs of the script have been submitted
C7_Witness ==
  /\ Len(requests) = 2
  /\ SMILES_Names = <<"Diethyl_Ether", "Nirmatrelvir">>
  /\ Field(requests[2].payload, "$.name") = "Nirmatrelvir_api_conformer-search"

\* position of a call in one iteration of the second loop
StepOf(op) ==
  CASE op = "wait_call" -> 1 [] op = "wait_return" -> 2 [] op = "get" -> 3
    [] op = "results" -> 4 [] op = "write" -> 5 [] op = "submit" -> 0

\* C8: two sequential phases: no submit call follows a wait, get, results
\* or write; a call to wait is followed by its return before anything else
\* happens (one call at a time); the second loop takes the identifiers in
\* the order in which they were stored, and an identifier's wait, get,
\* results and write are over before the wait of the next one begins.
C8_TwoSequentialPhases ==
  /\ \A p, q \in DOMAIN log :
       p < q /\ log[q].op = "submit" => log[p].op = "submit"
  /\ \A p \in EventsOf("wait_call") :
       /\ p < Len(log) =>
            log[p + 1].op = "wait_return" /\ log[p + 1].id = log[p].id
       /\ p = Len(log) => pc = "waiting"
  /\ \A p \in DOMAIN log :
       log[p].op # "submit" =>
         /\ log[p].idx \in DOMAIN workflow_ids
         /\ log[p].id = workflow_ids[log[p].idx]
         /\ p > 1 =>
              \/ log[p - 1].op = "submit" /\ log[p].idx = 1
                   /\ StepOf(log[p].op) = 1
              \/ log[p - 1].op # "submit" /\ log[p - 1].idx = log[p].idx
                   /\ StepOf(log[p].op) = StepOf(log[p - 1].op) + 1
              \/ log[p - 1].op = "write" /\ log[p].idx = log[p - 1].idx + 1
                   /\ StepOf(log[p].op) = 1

\* a run with two workflows has gone through both phases
C8_Witness ==
  /\ pc = "done"
  /\ Len(workflow_ids) = 2
  /\ workflow_ids = <<"wf-7", "wf-3">>
  /\ Len(log) = 12

\* C9: results(id) is called only after wait(id) has returned and get(id)
\* has read the status, when the workflow is in a terminal state; the results
\* file is written only after results(id) has returned; completed or failed
\* makes no difference.
C9_ResultsAfterTerminal ==
  /\ \A p \in EventsOf("results") :
       \E q1, q2 \in DOMAIN log :
         /\ q1 < q2 /\ q2 < p
         /\ log[q1] = Event("wait_return", log[p].idx, log[p].id, TRUE)
         /\ log[q2] = Event("get", log[p].idx, log[p].id, TRUE)
  /\ \A p \in EventsOf("write") :
       \E q \in DOMAIN log :
         q < p /\ log[q] = Event("results", log[p].idx, log[p].id, TRUE)
  /\ \A p \in EventsOf("results") \cup EventsOf("write") :
       remote[log[p].id].status \in {"completed", "failed"}

\* the results of a failed workflow have been fetched and written
C9_Witness ==
  \E p \in EventsOf("write") :
    /\ log[p].ok
    /\ remote[log[p].id].status = "failed"
    /\ workflow.status = "failed"

\* the results file of the j-th workflow holds what was written for it
FileIntact(j) ==
  LET path == "output/" \o SMILES_Names[j] \o "_api_conformer-search"
                \o "_results.json"
  IN /\ path \in DOMAIN fs
     /\ fs[path] = model_dump_json(
          ResultsOf(workflow_ids[j], remote[workflow_ids[j]].status))

\* C10: a failure to open or write the results file of the k-th workflow is
\* not swallowed: the run is in the error state, the failed write is the
\* last thing the script did (no wait, get, results or write for a later
\* workflow), and the files of workflows 1..k-1 are as they were written.
C10_WriteErrorFailsFast ==
  \A p \in EventsOf("write") :
    ~log[p].ok =>
      /\ pc = "error"
      /\ err = [kind |-> "write", idx |-> log[p].idx]
      /\ p = Len(log)
      /\ k = log[p].idx
      /\ \A j \in 1..(log[p].idx - 1) : FileIntact(j)

\* the write for the second workflow failed after the first file was written
C10_Witness ==
  /\ pc = "error"
  /\ err = [kind |-> "write", idx |-> 2]
  /\ Cardinality(DOMAIN fs) >= 1
  /\ FileIntact(1)

====
